---------------------------- MODULE Spec2Model ----------------------------
(***************************************************************************)
(* Model of src/app.py: a gravitational n-body simulation in a rectangular *)
(* domain (Body, calculate_gravitational_force, add_tuples, main).         *)
(*                                                                         *)
(* Numbers.  The program computes in IEEE doubles.  The model computes in  *)
(* fixed point: a coordinate, a velocity component and a force component   *)
(* are integers counting 1/Scale of the program's unit, and every division *)
(* rounds towards zero (Div), which like IEEE rounding is symmetric under  *)
(* negation.  Displacements are reduced to 1/DScale of a pixel before they *)
(* are squared, so that the squares stay inside TLC's 32-bit integers.     *)
(***************************************************************************)
EXTENDS Integers, Sequences, FiniteSets, TLC

VARIABLES
    bodies,      \* main: the list `bodies` (insertion order = iteration order)
    running,     \* main: the flag `running`
    pc,          \* position in main's loop: "events", "bodies" or "done"
    idx,         \* position of `for body in bodies` (1-based)
    warnings,    \* number of logging.warning calls made so far
    frame,       \* number of frames started (bounds the model)
    clicks,      \* history: number of MOUSEBUTTONDOWN events handled
    frameStart,  \* history: `bodies` as it was when the current frame's loop began
    last,        \* history: the most recent Body.update call
    log,         \* history: per body, every position update_trace has recorded
    pair         \* result of the most recent direct pairwise force evaluation

vars == <<bodies, running, pc, idx, warnings, frame, clicks, frameStart, last, log, pair>>

-----------------------------------------------------------------------------
(* Bounds of the model *)

MaxFrames == 1
MaxTraceFrames == 101
MaxWarnings == 1
MaxUnitBodies == 3
MaxUnitFrames == 2

-----------------------------------------------------------------------------
(* Fixed-point representation *)

Scale == 10 ^ 4
DScale == Scale \div 1000
SqrtScale == Scale \div 100

Abs(a) == IF a < 0 THEN -a ELSE a
Max(a, b) == IF a >= b THEN a ELSE b
Min(a, b) == IF a <= b THEN a ELSE b

\* Division rounding towards zero.
Div(a, b) == IF (a >= 0) = (b > 0) THEN Abs(a) \div Abs(b) ELSE -(Abs(a) \div Abs(b))

RECURSIVE IsqrtIter(_, _, _)
IsqrtIter(n, lo, hi) ==
    IF lo >= hi THEN lo
    ELSE LET mid == (lo + hi + 1) \div 2
         IN IF mid * mid <= n THEN IsqrtIter(n, mid, hi) ELSE IsqrtIter(n, lo, mid - 1)

\* math.sqrt / np.sqrt: the largest integer r with r*r <= n.
Isqrt(n) == IsqrtIter(n, 0, Min(n, 46340))

-----------------------------------------------------------------------------
(* Program constants *)

width == 800
height == 600
G10 == 98
REBOUND_NUM == 5
REBOUND_DEN == 10
MASS == 10
TRACE_LEN == 100
MAX_BODIES == 10

COLORS == <<
    <<217, 237, 146>>,
    <<93, 115, 126>>,
    <<30, 96, 145>>,
    <<62, 63, 63>>,
    <<143, 45, 86>>,
    <<116, 0, 184>>,
    <<56, 4, 14>> >>

INITIAL_COLORS == << <<116, 148, 196>>, <<106, 77, 97>>, <<195, 212, 7>> >>

\* The velocity component 0.1 given to every body at creation.
V01 == Scale \div 10

-----------------------------------------------------------------------------
(* class Body *)

\* Body.__init__: x, y and velocity are fixed-point values.
Body(x, y, mass, velocity, color) ==
    [x |-> x, y |-> y, mass |-> mass, radius |-> Isqrt(4 * mass),
     vx |-> velocity[1], vy |-> velocity[2], color |-> color, trace |-> <<>>]

\* Body.__eq__: equality of colors.
BodyEq(self, other) == self.color = other.color

\* The squared separation of p1 and p2 in (1/DScale pixel)^2.
SepSq(p1, p2) ==
    LET dx == Div(p2.x - p1.x, Scale \div DScale)
        dy == Div(p2.y - p1.y, Scale \div DScale)
    IN dx * dx + dy * dy

CUTOFF == 40

\* Variant of InCutoff: the cutoff taken 15 units too low.
InCutoffMut(distance) == distance < (CUTOFF - 15) * DScale

\* distance < 40, with distance in 1/DScale pixels
InCutoff(distance) == distance < CUTOFF * DScale

\* Variant of ForceMagnitude: divides by distance instead of distance**2.
ForceMagnitudeMut(m1, m2, dsq, d) == Div(G10 * m1 * m2 * DScale * Scale, 10 * d)

\* G * p1.mass * p2.mass / distance**2, in 1/Scale; dsq is distance**2 and d is
\* distance, in 1/DScale pixels.
ForceMagnitude(m1, m2, dsq, d) == Div(G10 * m1 * m2 * DScale * DScale * (Scale \div 10), dsq)

calculate_gravitational_force(p1, p2) ==
    LET dx == Div(p2.x - p1.x, Scale \div DScale)
        dy == Div(p2.y - p1.y, Scale \div DScale)
        root == Isqrt(dx * dx + dy * dy)
        distance == Max(1 * DScale, root)
        \* distance**2: the square of max(1, sqrt(s)) is max(1, s)
        distanceSq == Max(DScale * DScale, dx * dx + dy * dy)
    IN IF InCutoff(distance)
       THEN <<0, 0>>
       ELSE LET force == ForceMagnitude(p1.mass, p2.mass, distanceSq, distance)
            \* cos(atan2(dy, dx)) = dx / sqrt(dx^2 + dy^2), sin likewise
            IN <<Div(force * dx, root), Div(force * dy, root)>>

RECURSIVE SumFrom(_, _)
\* Sum of t[i], t[i+2], t[i+4], ...
SumFrom(t, i) == IF i > Len(t) THEN 0 ELSE t[i] + SumFrom(t, i + 2)

\* Variant of add_tuples: even and odd positions exchanged.
add_tuplesMut(t) == <<SumFrom(t, 2), SumFrom(t, 1)>>

\* add_tuples: Python's even indices 0, 2, ... are positions 1, 3, ... here.
add_tuples(t) == <<SumFrom(t, 1), SumFrom(t, 2)>>

RECURSIVE ForceTuple(_, _, _)
\* The loop of calculate_grav_force from position k on: the tuple `force`
\* grows by concatenation, one pair for every body that is != self.
ForceTuple(self, bs, k) ==
    IF k > Len(bs) THEN <<>>
    ELSE (IF ~BodyEq(bs[k], self) THEN calculate_gravitational_force(self, bs[k]) ELSE <<>>)
         \o ForceTuple(self, bs, k + 1)

\* The pair calculate_grav_force hands to update.
NetForce(self, bs) == add_tuples(<<0, 0>> \o ForceTuple(self, bs, 1))

\* Body.update up to the call of check_boundaries: the integration.
Integrate(b, force_x, force_y) ==
    LET ax == Div(force_x, b.mass)
        ay == Div(force_y, b.mass)
        vx == b.vx + ax
        vy == b.vy + ay
    IN [b EXCEPT !.vx = vx, !.vy = vy, !.x = b.x + vx, !.y = b.y + vy]

\* v * -REBOUND_FACTOR
Rebound(v) == Div((-v) * REBOUND_NUM, REBOUND_DEN)

\* Variant of check_boundaries: the x tests chained to the y tests by elif.
check_boundariesMut(b) ==
    IF b.y < 0 THEN [b EXCEPT !.y = 0, !.vy = Rebound(b.vy)]
    ELSE IF b.y > height * Scale THEN [b EXCEPT !.y = height * Scale, !.vy = Rebound(b.vy)]
    ELSE IF b.x < 0 THEN [b EXCEPT !.x = 0, !.vx = Rebound(b.vx)]
    ELSE IF b.x > width * Scale THEN [b EXCEPT !.x = width * Scale, !.vx = Rebound(b.vx)]
    ELSE b

check_boundaries(b) ==
    LET b1 == IF b.y < 0 THEN [b EXCEPT !.y = 0, !.vy = Rebound(b.vy)]
              ELSE IF b.y > height * Scale
                   THEN [b EXCEPT !.y = height * Scale, !.vy = Rebound(b.vy)]
                   ELSE b
    IN IF b1.x < 0 THEN [b1 EXCEPT !.x = 0, !.vx = Rebound(b1.vx)]
       ELSE IF b1.x > width * Scale
            THEN [b1 EXCEPT !.x = width * Scale, !.vx = Rebound(b1.vx)]
            ELSE b1

update_trace(b) ==
    LET t == Append(b.trace, <<b.x, b.y>>)
    IN [b EXCEPT !.trace = IF Len(t) = TRACE_LEN THEN Tail(t) ELSE t]

\* Variant of update: check_boundaries is not called.
updateMut(b, force_x, force_y) == update_trace(Integrate(b, force_x, force_y))

\* Body.update
update(b, force_x, force_y) == update_trace(check_boundaries(Integrate(b, force_x, force_y)))

-----------------------------------------------------------------------------
(* main *)

side == 200
initial_x == 300
initial_y == 400

\* x = np.sqrt(side**2 - (side / 2)**2), in 1/Scale
tri_x == (Isqrt((side * side - (side \div 2) * (side \div 2)) * SqrtScale * SqrtScale)
          * Scale) \div SqrtScale

InitialBodies == <<
    Body(initial_x * Scale, initial_y * Scale, MASS, <<V01, V01>>, INITIAL_COLORS[1]),
    Body(((initial_x + (initial_x + side)) * Scale) \div 2, initial_y * Scale - tri_x,
         MASS, <<-V01, V01>>, INITIAL_COLORS[2]),
    Body((initial_x + side) * Scale, initial_y * Scale, MASS, <<V01, -V01>>,
         INITIAL_COLORS[3]) >>

\* The positions pygame.mouse.get_pos() returns in the model, in pixels.
MousePositions == {<<300, 441>>, <<345, 441>>}

NoUpdate == [body |-> 0, force |-> <<0, 0>>, before |-> InitialBodies[1],
             moved |-> InitialBodies[1]]
NoPair == [called |-> FALSE, a |-> 0, b |-> 0, p1 |-> InitialBodies[1],
           p2 |-> InitialBodies[1], f |-> <<0, 0>>, rev |-> <<0, 0>>]

Init ==
    /\ bodies = InitialBodies
    /\ running = TRUE
    /\ pc = "events"
    /\ idx = 1
    /\ warnings = 0
    /\ frame = 0
    /\ clicks = 0
    /\ frameStart = InitialBodies
    /\ last = NoUpdate
    /\ log = [k \in 1..3 |-> <<>>]
    /\ pair = NoPair

\* event.type == pygame.QUIT
HandleQuit ==
    /\ pc = "events"
    /\ running
    /\ running' = FALSE
    /\ UNCHANGED <<bodies, pc, idx, warnings, frame, clicks, frameStart, last, log, pair>>

\* Variant of CanSpawn: the list is taken to be full one body early.
CanSpawnMut(bs) == Len(bs) < MAX_BODIES - 1

\* len(bodies) < 10
CanSpawn(bs) == Len(bs) < MAX_BODIES

\* Variant of SpawnColor: the palette index wraps around after four colors.
SpawnColorMut(n) == COLORS[((n - 3) % 4) + 1]

\* COLORS[len(bodies) - 3]
SpawnColor(n) == COLORS[(n - 3) + 1]

\* Variant of AddBody: the new body is inserted at the head of the list.
AddBodyMut(bs, b) == <<b>> \o bs

\* bodies.append(...)
AddBody(bs, b) == Append(bs, b)

\* event.type == pygame.MOUSEBUTTONDOWN
HandleMouseButtonDown(mouse) ==
    /\ pc = "events"
    /\ clicks' = clicks + 1
    /\ IF CanSpawn(bodies)
       THEN /\ bodies' = AddBody(bodies, Body(mouse[1] * Scale, mouse[2] * Scale, MASS,
                                              <<V01, V01>>, SpawnColor(Len(bodies))))
            /\ log' = Append(log, <<>>)
            /\ UNCHANGED warnings
       ELSE /\ warnings < MaxWarnings
            /\ warnings' = warnings + 1
            /\ UNCHANGED <<bodies, log>>
    /\ UNCHANGED <<running, pc, idx, frame, frameStart, last, pair>>

\* The event loop has ended: screen.fill, then the loop over bodies begins.
BeginBodies(limit) ==
    /\ pc = "events"
    /\ frame < limit
    /\ pc' = "bodies"
    /\ idx' = 1
    /\ frame' = frame + 1
    /\ frameStart' = bodies
    /\ UNCHANGED <<bodies, running, warnings, clicks, last, log, pair>>

StartFrame == BeginBodies(MaxFrames)

\* Variant of ForceSource: the positions of the frame's start (a synchronized
\* update).
ForceSourceMut(cur, snap) == snap

\* The list handed to calculate_grav_force: the live list `bodies`.
ForceSource(cur, snap) == cur

\* One iteration of `for body in bodies`: calculate_grav_force (which calls
\* update), then draw.
StepBody ==
    /\ pc = "bodies"
    /\ idx <= Len(bodies)
    /\ \E f \in {NetForce(bodies[idx], ForceSource(bodies, frameStart))} :
         \E new \in {update(bodies[idx], f[1], f[2])} :
            /\ bodies' = [bodies EXCEPT ![idx] = new]
            /\ last' = [body |-> idx, force |-> f, before |-> bodies[idx],
                        moved |-> Integrate(bodies[idx], f[1], f[2])]
            /\ log' = [log EXCEPT ![idx] = Append(@, <<new.x, new.y>>)]
    /\ idx' = idx + 1
    /\ UNCHANGED <<running, pc, warnings, frame, clicks, frameStart, pair>>

\* pygame.display.update, clock.tick, and the test of `while running`.
EndFrame ==
    /\ pc = "bodies"
    /\ idx > Len(bodies)
    /\ pc' = IF running THEN "events" ELSE "done"
    /\ UNCHANGED <<bodies, running, idx, warnings, frame, clicks, frameStart, last, log, pair>>

Next ==
    \/ HandleQuit
    \/ \E mouse \in MousePositions : HandleMouseButtonDown(mouse)
    \/ StartFrame
    \/ StepBody
    \/ EndFrame

Spec == Init /\ [][Next]_vars

-----------------------------------------------------------------------------
(* The program left alone (no input events) for MaxTraceFrames frames. *)

StartFrameLong == BeginBodies(MaxTraceFrames)

NextTrace ==
    \/ StartFrameLong
    \/ StepBody
    \/ EndFrame

SpecTrace == Init /\ [][NextTrace]_vars

-----------------------------------------------------------------------------
(* The loop over bodies, and the pairwise force, on small collections of   *)
(* bodies placed near each other and near the walls of the domain.         *)

\* <<x, y, vx, vy>>: a position in pixels and a velocity in tenths of a pixel
\* per step.
UnitInputs == {
    <<300, 400, 1, 1>>,
    <<330, 440, 1, 1>>,
    <<350, 400, -1, 1>>,
    <<310, 420, 1, -1>>,
    <<799, 599, 20, 20>>,
    <<1, 1, -20, -20>>,
    <<400, 599, 1, 20>> }

\* The color main gives to the k-th body of the list.
ProgramColor(k) == IF k <= 3 THEN INITIAL_COLORS[k] ELSE SpawnColor(k - 1)

UnitBody(inp, k) ==
    Body(inp[1] * Scale, inp[2] * Scale, MASS, <<inp[3] * V01, inp[4] * V01>>,
         ProgramColor(k))

InitUnit ==
    /\ \E n \in 1..MaxUnitBodies : \E inp \in [1..n -> UnitInputs] :
          /\ bodies = [k \in 1..n |-> UnitBody(inp[k], k)]
          /\ log = [k \in 1..n |-> <<>>]
    /\ frameStart = bodies
    /\ running = TRUE
    /\ pc = "events"
    /\ idx = 1
    /\ warnings = 0
    /\ frame = 0
    /\ clicks = 0
    /\ last = NoUpdate
    /\ pair = NoPair

StartFrameUnit == ~pair.called /\ BeginBodies(MaxUnitFrames)

\* calculate_gravitational_force evaluated on its own, on bodies[a] and
\* bodies[b] and with the arguments swapped.
PairForce(a, b) ==
    /\ pc = "events"
    /\ ~pair.called
    /\ pair' = [called |-> TRUE, a |-> a, b |-> b, p1 |-> bodies[a], p2 |-> bodies[b],
                f |-> calculate_gravitational_force(bodies[a], bodies[b]),
                rev |-> calculate_gravitational_force(bodies[b], bodies[a])]
    /\ UNCHANGED <<bodies, running, pc, idx, warnings, frame, clicks, frameStart, last, log>>

NextUnit ==
    \/ StartFrameUnit
    \/ StepBody
    \/ EndFrame
    \/ \E a \in 1..Len(bodies) : \E b \in 1..Len(bodies) : PairForce(a, b)

SpecUnit == InitUnit /\ [][NextUnit]_vars


-----------------------------------------------------------------------------
(* Properties *)

\* The body at index last.body has just been stepped and nothing ran since.
JustStepped == last.body # 0 /\ pc = "bodies" /\ idx = last.body + 1

InDomain(b) == 0 <= b.x /\ b.x <= 800 * Scale /\ 0 <= b.y /\ b.y <= 600 * Scale

\* The pairwise force on p of every body of bs, by index; index j, the index
\* of p itself, contributes nothing.
PairwiseForces(p, bs, j) ==
    [k \in 1..Len(bs) |->
        IF k # j THEN calculate_gravitational_force(p, bs[k]) ELSE <<0, 0>>]

RECURSIVE SumComponent(_, _, _)
\* Component c of fs[k] + fs[k+1] + ...
SumComponent(fs, k, c) ==
    IF k > Len(fs) THEN 0 ELSE fs[k][c] + SumComponent(fs, k + 1, c)

\* f is the component-wise sum of the pairwise forces on p of all bodies of
\* bs but the one at index j.
IsIndexNetForce(f, p, bs, j) ==
    \A fs \in {PairwiseForces(p, bs, j)} :
        f = <<SumComponent(fs, 1, 1), SumComponent(fs, 1, 2)>>

\* C1: every body that has been stepped lies in [0, width] x [0, height].
C1_PositionInDomain ==
    \A j \in 1..Len(bodies) : Len(log[j]) > 0 => InDomain(bodies[j])

\* C1 witness: the integration carried a body beyond the far corner of the
\* domain and the step left it inside.
C1_Witness ==
    /\ JustStepped
    /\ last.moved.x > 800 * Scale
    /\ last.moved.y > 600 * Scale
    /\ InDomain(bodies[last.body])

\* C2 (as claimed): a body stepped n >= 100 times has a trace of exactly 100
\* entries whose oldest entry is the position recorded 100 steps ago.
C2_TraceKeeps100 ==
    \A j \in 1..Len(bodies) :
        Len(log[j]) >= 100 =>
            /\ Len(bodies[j].trace) = 100
            /\ bodies[j].trace[1] = log[j][Len(log[j]) - 99]

\* C3: the list never holds more than 10 bodies; a click at 10 bodies changes
\* nothing but the warning count, a click below 10 appends exactly one body.
C3_SpawnCap ==
    /\ [](Len(bodies) <= 10)
    /\ [][clicks' = clicks + 1 =>
            IF Len(bodies) < 10
            THEN /\ Len(bodies') = Len(bodies) + 1
                 /\ SubSeq(bodies', 1, Len(bodies)) = bodies
                 /\ warnings' = warnings
            ELSE /\ bodies' = bodies
                 /\ warnings' = warnings + 1]_vars

\* C3 witness: a click was rejected with the list full.
C3_Witness == Len(bodies) = 10 /\ warnings = 1 /\ clicks = 8

\* The positions the force on the body at index j is claimed to be computed
\* from: the current ones at indices < j, those of the frame's start above.
MixedPositions(j) ==
    [k \in 1..Len(bodies) |-> IF k < j THEN bodies[k] ELSE frameStart[k]]

\* C4: bodies are stepped in list order, each fully before the next: the
\* force on body j comes from the updated bodies below j and the not yet
\* updated bodies above j.
C4_SequentialUpdate ==
    JustStepped =>
        LET j == last.body
        IN /\ last.before = frameStart[j]
           /\ IsIndexNetForce(last.force, frameStart[j], MixedPositions(j), j)
           /\ \A k \in 1..(j - 1) :
                 /\ Len(bodies[k].trace) = Len(frameStart[k].trace) + 1
                 /\ bodies[k].trace[Len(bodies[k].trace)] = <<bodies[k].x, bodies[k].y>>
           /\ \A k \in (j + 1)..Len(bodies) : bodies[k] = frameStart[k]

\* C4 witness: a body after the first was stepped, and the force on it is not
\* the one the positions of the frame's start would have given.
C4_Witness ==
    /\ JustStepped
    /\ last.body > 1
    /\ ~IsIndexNetForce(last.force, frameStart[last.body], frameStart, last.body)

\* C5: the bodies of the list have pairwise distinct colors, and the force on
\* a stepped body sums the pairwise force of every other index.
C5_ExclusionOnlySelf ==
    /\ \A a \in 1..Len(bodies) : \A b \in (a + 1)..Len(bodies) :
          ~BodyEq(bodies[a], bodies[b]) /\ ~BodyEq(bodies[b], bodies[a])
    /\ JustStepped => IsIndexNetForce(last.force, last.before, bodies, last.body)

\* C5 witness: a body of a full list was stepped under a nonzero force.
C5_Witness == JustStepped /\ Len(bodies) = 10 /\ last.force # <<0, 0>>

\* C6: the pairwise force is (0, 0) below a separation of 40, coincident
\* bodies included.
C6_CutoffZero ==
    pair.called =>
        /\ SepSq(pair.p1, pair.p2) < 40 * 40 * DScale * DScale => pair.f = <<0, 0>>
        /\ (pair.p1.x = pair.p2.x /\ pair.p1.y = pair.p2.y) => pair.f = <<0, 0>>

\* C6 witness: the force between two distinct bodies at the same point was
\* evaluated.
C6_Witness ==
    /\ pair.called
    /\ pair.a # pair.b
    /\ pair.p1.x = pair.p2.x
    /\ pair.p1.y = pair.p2.y
    /\ pair.f = <<0, 0>>

\* v multiplied by -0.5, in fixed point.
IsHalfReversed(v, w) == Abs(2 * w + v) <= 1 /\ (v > 0 => w <= 0) /\ (v < 0 => w >= 0)

\* What check_boundaries is claimed to do to one axis: (c, v) becomes (c2, v2).
AxisReflected(c, v, limit, c2, v2) ==
    IF c < 0 THEN c2 = 0 /\ IsHalfReversed(v, v2)
    ELSE IF c > limit THEN c2 = limit /\ IsHalfReversed(v, v2)
    ELSE c2 = c /\ v2 = v

\* C7: check_boundaries clamps and damps each axis on its own, leaves an axis
\* inside its limits alone, and changes nothing when called again.
C7_BoundariesPerAxis ==
    JustStepped =>
        LET m == last.moved
            b == bodies[last.body]
        IN /\ AxisReflected(m.y, m.vy, 600 * Scale, b.y, b.vy)
           /\ AxisReflected(m.x, m.vx, 800 * Scale, b.x, b.vx)
           /\ check_boundaries(b) = b

\* C7 witness: a corner contact, both axes clamped and both velocities
\* reversed in one call.
C7_Witness ==
    /\ JustStepped
    /\ last.moved.x > 800 * Scale /\ last.moved.y > 600 * Scale
    /\ last.moved.vx > 0 /\ last.moved.vy > 0
    /\ bodies[last.body].x = 800 * Scale /\ bodies[last.body].y = 600 * Scale
    /\ bodies[last.body].vx < 0 /\ bodies[last.body].vy < 0

\* G * m1 * m2 / d^2 in 1/Scale, for a squared separation s in (1/DScale pixel)^2.
Newton(m1, m2, s) == Div(98 * m1 * m2 * (Scale \div 10) * DScale * DScale, s)

\* The pair evaluated is the example: masses 10 and 10, 50 units apart along x.
IsExample ==
    /\ pair.called
    /\ pair.p1.mass = 10 /\ pair.p2.mass = 10
    /\ pair.p2.y = pair.p1.y
    /\ pair.p2.x - pair.p1.x = 50 * Scale

\* At a separation >= 40 the force of b on a has magnitude G*m1*m2/d^2 (to the
\* rounding of the fixed point), points from a to b, and is the negation of
\* the force of a on b.
NewtonLaw ==
    (pair.called /\ SepSq(pair.p1, pair.p2) >= 40 * 40 * DScale * DScale) =>
        LET s == SepSq(pair.p1, pair.p2)
            F == Newton(pair.p1.mass, pair.p2.mass, s)
            m2 == pair.f[1] * pair.f[1] + pair.f[2] * pair.f[2]
            lo == IF F > 2 THEN F - 2 ELSE 0
            hi == F + (F \div 400) + 1
            dx == Div(pair.p2.x - pair.p1.x, Scale \div DScale)
            dy == Div(pair.p2.y - pair.p1.y, Scale \div DScale)
        IN /\ pair.rev = <<-pair.f[1], -pair.f[2]>>
           /\ lo * lo <= m2 /\ m2 <= hi * hi
           /\ Isqrt(s) * Isqrt(s) = s => m2 <= F * F
           \* directed from a towards b: along the displacement, not against it
           /\ pair.f[1] * dx >= 0 /\ pair.f[2] * dy >= 0
           /\ F >= 2 => pair.f[1] * dx + pair.f[2] * dy > 0
           /\ Abs(pair.f[1] * dy - pair.f[2] * dx) <= Abs(dx) + Abs(dy)

\* C8 (as claimed): Newton's law with action and reaction, and the example
\* gives magnitude 0.0392 along the axis.
C8_Original == NewtonLaw /\ (IsExample => pair.f = <<392 * (Scale \div 10000), 0>>)

\* C8 (amended): Newton's law with action and reaction, and the example gives
\* magnitude 0.392 = 9.8 * 10 * 10 / 2500 along the axis.
C8_NewtonThirdLaw == NewtonLaw /\ (IsExample => pair.f = <<3920 * (Scale \div 10000), 0>>)

\* C8 witness: the example was evaluated and gave 0.392 along x, and its
\* reverse the negation.
C8_Witness ==
    /\ IsExample
    /\ pair.f = <<3920 * (Scale \div 10000), 0>>
    /\ pair.rev = <<-3920 * (Scale \div 10000), 0>>

\* C9: no body leaves the list or changes index, and mass, radius and color
\* of a body never change.
C9_AppendOnly ==
    [][/\ Len(bodies') >= Len(bodies)
       /\ \A k \in 1..Len(bodies) :
             /\ bodies'[k].color = bodies[k].color
             /\ bodies'[k].mass = bodies[k].mass
             /\ bodies'[k].radius = bodies[k].radius]_vars

\* C9 witness: bodies were spawned, all bodies were stepped, and another body
\* was spawned after that.
C9_Witness ==
    /\ Len(bodies) > Len(frameStart)
    /\ Len(frameStart) > 3
    /\ \A k \in 1..Len(frameStart) : Len(log[k]) = 1
    /\ Len(log[Len(bodies)]) = 0

\* C10: the pair handed to update is the component-wise sum of the pairwise
\* forces of all other bodies; for a single body it is (0, 0) and the
\* integration leaves the velocity as it was.
C10_ComponentSum ==
    JustStepped =>
        /\ IsIndexNetForce(last.force, last.before, bodies, last.body)
        /\ Len(<<0, 0>> \o ForceTuple(last.before, bodies, 1)) = 2 * Len(bodies)
        /\ Len(bodies) = 1 =>
              /\ last.force = <<0, 0>>
              /\ last.moved.vx = last.before.vx
              /\ last.moved.vy = last.before.vy

\* C10 witness: a body was stepped under two nonzero pairwise forces whose x
\* and y totals differ.
C10_Witness ==
    /\ JustStepped
    /\ Len(bodies) = 3
    /\ \A k \in 1..3 :
          k # last.body => calculate_gravitational_force(last.before, bodies[k]) # <<0, 0>>
    /\ last.force[1] # last.force[2]

=============================================================================
